---- MODULE Spec2Model ----
(***************************************************************************)
(* Model of the GPMF (GoPro metadata) KLV decoder of src/main.rs.          *)
(*                                                                         *)
(* A byte is a number in 0..255 and a slice (&[u8]) is a sequence of       *)
(* bytes.  A nom IResult is a record [k, rest, val]: k = "Ok" carries the  *)
(* remaining slice and the value; the other kinds are the ways a call      *)
(* ends without a value:                                                   *)
(*   "Incomplete"    nom::Err::Incomplete (a streaming read ran out)       *)
(*   "ErrorTag"      nom::Err::Error(ErrorKind::Tag) (tag() mismatch)      *)
(*   "FailureTag"    nom::Err::Failure(ErrorKind::Tag) (parse_block)       *)
(*   "PanicAssert"   assert_eq! on an element size or count                *)
(*   "PanicUtf8"     unwrap() of std::str::from_utf8                       *)
(*   "PanicScal"     panic!("Unexpected scaling factor data type")         *)
(*   "PanicTrailing" assert_eq!(trailing_bytes.len(), 0)                   *)
(***************************************************************************)
EXTENDS Integers, Sequences, FiniteSets, TLC

\* ------------------------------------------------------------------------
\* Results
\* ------------------------------------------------------------------------
Ok(rest, val) == [k |-> "Ok", rest |-> rest, val |-> val]

Err(kind) == [k |-> kind, rest |-> <<>>, val |-> <<>>]

ErrKinds == {"Incomplete", "ErrorTag", "FailureTag"}

PanicKinds == {"PanicAssert", "PanicUtf8", "PanicScal", "PanicTrailing"}

Drop(input, n) == SubSeq(input, n + 1, Len(input))

Min(a, b) == IF a < b THEN a ELSE b

\* ------------------------------------------------------------------------
\* nom streaming primitives
\* ------------------------------------------------------------------------
take(n, input) ==
  IF Len(input) < n THEN Err("Incomplete")
  ELSE Ok(Drop(input, n), SubSeq(input, 1, n))

tag(t, input) ==
  LET m == Min(Len(t), Len(input)) IN
  IF SubSeq(input, 1, m) # SubSeq(t, 1, m) THEN Err("ErrorTag")
  ELSE IF Len(input) < Len(t) THEN Err("Incomplete")
  ELSE Ok(Drop(input, Len(t)), t)

be_u8(input) ==
  IF Len(input) < 1 THEN Err("Incomplete")
  ELSE Ok(Drop(input, 1), input[1])

be_u16(input) ==
  IF Len(input) < 2 THEN Err("Incomplete")
  ELSE Ok(Drop(input, 2), input[1] * 256 + input[2])

be_i8(input) ==
  IF Len(input) < 1 THEN Err("Incomplete")
  ELSE Ok(Drop(input, 1), IF input[1] >= 128 THEN input[1] - 256 ELSE input[1])

\* be_i16 reading the low byte first
be_i16_le(input) ==
  IF Len(input) < 2 THEN Err("Incomplete")
  ELSE LET u == input[2] * 256 + input[1] IN
       Ok(Drop(input, 2), IF u >= 32768 THEN u - 65536 ELSE u)

be_i16(input) ==
  IF Len(input) < 2 THEN Err("Incomplete")
  ELSE LET u == input[1] * 256 + input[2] IN
       Ok(Drop(input, 2), IF u >= 32768 THEN u - 65536 ELSE u)

\* two's complement, computed from the sign byte so that no intermediate
\* value leaves the 32-bit range
be_i32(input) ==
  IF Len(input) < 4 THEN Err("Incomplete")
  ELSE LET top == IF input[1] >= 128 THEN input[1] - 256 ELSE input[1] IN
       Ok(Drop(input, 4),
          top * 16777216 + input[2] * 65536 + input[3] * 256 + input[4])

\* an unsigned 32-bit value is kept as its two big-endian 16-bit halves
\* (hi * 65536 + lo), an unsigned 64-bit value as four of them
be_u32(input) ==
  IF Len(input) < 4 THEN Err("Incomplete")
  ELSE Ok(Drop(input, 4),
          <<input[1] * 256 + input[2], input[3] * 256 + input[4]>>)

be_u64(input) ==
  IF Len(input) < 8 THEN Err("Incomplete")
  ELSE Ok(Drop(input, 8),
          <<input[1] * 256 + input[2], input[3] * 256 + input[4],
            input[5] * 256 + input[6], input[7] * 256 + input[8]>>)

\* an IEEE-754 single is kept as its big-endian bit pattern
be_f32(input) ==
  IF Len(input) < 4 THEN Err("Incomplete")
  ELSE Ok(Drop(input, 4),
          [f32bits |-> <<input[1] * 256 + input[2], input[3] * 256 + input[4]>>])

\* ------------------------------------------------------------------------
\* std::str::from_utf8: TRUE iff the bytes are well-formed UTF-8
\* ------------------------------------------------------------------------
Cont(b) == b >= 128 /\ b <= 191

\* the bytes from position i on are well-formed UTF-8
RECURSIVE utf8_from(_, _)
utf8_from(bytes, i) ==
  IF i > Len(bytes) THEN TRUE
  ELSE IF bytes[i] < 128 THEN utf8_from(bytes, i + 1)
  ELSE IF bytes[i] >= 194 /\ bytes[i] <= 223
    THEN /\ i + 1 <= Len(bytes)
         /\ Cont(bytes[i + 1])
         /\ utf8_from(bytes, i + 2)
  ELSE IF bytes[i] >= 224 /\ bytes[i] <= 239
    THEN /\ i + 2 <= Len(bytes)
         /\ Cont(bytes[i + 1]) /\ Cont(bytes[i + 2])
         /\ (bytes[i] = 224 => bytes[i + 1] >= 160)
         /\ (bytes[i] = 237 => bytes[i + 1] <= 159)
         /\ utf8_from(bytes, i + 3)
  ELSE IF bytes[i] >= 240 /\ bytes[i] <= 244
    THEN /\ i + 3 <= Len(bytes)
         /\ Cont(bytes[i + 1]) /\ Cont(bytes[i + 2]) /\ Cont(bytes[i + 3])
         /\ (bytes[i] = 240 => bytes[i + 1] >= 144)
         /\ (bytes[i] = 244 => bytes[i + 1] <= 143)
         /\ utf8_from(bytes, i + 4)
  ELSE FALSE

from_utf8(bytes) == utf8_from(bytes, 1)

\* ------------------------------------------------------------------------
\* Shared shapes of the per-key decoders
\* ------------------------------------------------------------------------
\* let (input, x) = r?; F(x): a result that is not Ok is returned as it is.
\* r is evaluated once and bound to its value.
Then(r, F(_)) ==
  CHOOSE y \in { IF x.k # "Ok" THEN x ELSE F(x) : x \in {r} } : TRUE

AnySize == 0..255

AnyCount == 0..65535

\* tag(..)?; be_u8?; assert_eq!(size, ..); be_u16?; assert_eq!(count, ..)
\* in the order every decoder performs them; sizes and counts are the
\* values the assertions let through (AnySize / AnyCount: no assertion)
tag_size_count(t, sizes, counts, input) ==
  Then(tag(t, input), LAMBDA r1:
  Then(be_u8(r1.rest), LAMBDA r2:
  IF r2.val \notin sizes THEN Err("PanicAssert") ELSE
  Then(be_u16(r2.rest), LAMBDA r3:
  IF r3.val \notin counts THEN Err("PanicAssert") ELSE
  Ok(r3.rest, [size |-> r2.val, count |-> r3.val]))))

\* "Take remaining padding bytes": if data_length % 4 != 0, take
\* 4 - data_length % 4 bytes
take_padding(data_length, input) ==
  IF data_length % 4 # 0 THEN take(4 - (data_length % 4), input)
  ELSE Ok(input, <<>>)

\* one element of a measurement list, by the be_* calls of the loop body
read_elem(shape, input) ==
  CASE shape = "i16" -> be_i16(input)
    [] shape = "u16" -> be_u16(input)
    [] shape = "i32" -> be_i32(input)
    [] shape = "f32" -> be_f32(input)
    [] shape = "i16x3" ->
         Then(be_i16(input), LAMBDA a:
         Then(be_i16(a.rest), LAMBDA b:
         Then(be_i16(b.rest), LAMBDA c:
         Ok(c.rest, <<a.val, b.val, c.val>>))))
    [] shape = "i16x4" ->
         Then(be_i16(input), LAMBDA a:
         Then(be_i16(a.rest), LAMBDA b:
         Then(be_i16(b.rest), LAMBDA c:
         Then(be_i16(c.rest), LAMBDA d:
         Ok(d.rest, <<a.val, b.val, c.val, d.val>>)))))
    [] shape = "f32x3" ->
         Then(be_f32(input), LAMBDA a:
         Then(be_f32(a.rest), LAMBDA b:
         Then(be_f32(b.rest), LAMBDA c:
         Ok(c.rest, <<a.val, b.val, c.val>>))))
    [] shape = "u8x2" ->
         Then(be_u8(input), LAMBDA a:
         Then(be_u8(a.rest), LAMBDA b:
         Ok(b.rest, <<a.val, b.val>>)))
    [] shape = "u8x3" ->
         Then(be_u8(input), LAMBDA a:
         Then(be_u8(a.rest), LAMBDA b:
         Then(be_u8(b.rest), LAMBDA c:
         Ok(c.rest, <<a.val, b.val, c.val>>))))
    [] shape = "i8x2" ->
         Then(be_i8(input), LAMBDA a:
         Then(be_i8(a.rest), LAMBDA b:
         Ok(b.rest, <<a.val, b.val>>)))

\* for _ in 0..count { let (iinput, m) = ...(input)?; measurements.push(m);
\* input = iinput }
RECURSIVE read_loop(_, _, _, _)
read_loop(shape, count, input, measurements) ==
  IF count = 0 THEN Ok(input, measurements)
  ELSE Then(read_elem(shape, input), LAMBDA r:
       read_loop(shape, count - 1, r.rest, Append(measurements, r.val)))

Block(t, v) == [t |-> t, v |-> v]

\* ------------------------------------------------------------------------
\* Type keys (the byte strings matched in parse_block)
\* ------------------------------------------------------------------------
DEVC == <<68, 69, 86, 67>>
DVID == <<68, 86, 73, 68>>
DVNM == <<68, 86, 78, 77>>
STRM == <<83, 84, 82, 77>>
STMP == <<83, 84, 77, 80>>
TSMP == <<84, 83, 77, 80>>
STNM == <<83, 84, 78, 77>>
ORIN == <<79, 82, 73, 78>>
SIUN == <<83, 73, 85, 78>>
UNIT == <<85, 78, 73, 84>>
SCAL == <<83, 67, 65, 76>>
TMPC == <<84, 77, 80, 67>>
ACCL == <<65, 67, 67, 76>>
GYRO == <<71, 89, 82, 79>>
SHUT == <<83, 72, 85, 84>>
WBAL == <<87, 66, 65, 76>>
WRGB == <<87, 82, 71, 66>>
ISOE == <<73, 83, 79, 69>>
UNIF == <<85, 78, 73, 70>>
TYPE == <<84, 89, 80, 69>>
GPSF == <<71, 80, 83, 70>>
GPSU == <<71, 80, 83, 85>>
GPSP == <<71, 80, 83, 80>>
GPSA == <<71, 80, 83, 65>>
GPS5 == <<71, 80, 83, 53>>
CORI == <<67, 79, 82, 73>>
IORI == <<73, 79, 82, 73>>
GRAV == <<71, 82, 65, 86>>
WNDM == <<87, 78, 68, 77>>
MWET == <<77, 87, 69, 84>>
AALP == <<65, 65, 76, 80>>
MSKP == <<77, 83, 75, 80>>
LRVO == <<76, 82, 86, 79>>
LRVS == <<76, 82, 86, 83>>
LSKP == <<76, 83, 75, 80>>

ContainerKeys == {DEVC, STRM}

TextKeys == {DVNM, STNM, ORIN, SIUN, UNIT, TYPE, GPSU}

KnownKeys ==
  {DEVC, DVID, DVNM, STRM, STMP, TSMP, STNM, ORIN, SIUN, UNIT, SCAL, TMPC,
   ACCL, GYRO, SHUT, WBAL, WRGB, ISOE, UNIF, TYPE, GPSF, GPSU, GPSP, GPSA,
   GPS5, CORI, IORI, GRAV, WNDM, MWET, AALP, MSKP, LRVO, LRVS, LSKP}

\* Element type tags, as the byte strings given to tag()
TagNested == <<0>>
TagCustom == <<63>>
Tag_c == <<99>>
Tag_s == <<115>>
Tag_l == <<108>>
Tag_f == <<102>>
Tag_L == <<76>>
Tag_S == <<83>>
Tag_J == <<74>>
Tag_U == <<85>>
Tag_F == <<70>>
Tag_B == <<66>>
Tag_b == <<98>>

\* ------------------------------------------------------------------------
\* Scalar records
\* ------------------------------------------------------------------------
parse_dvid(input) ==
  Then(tag_size_count(Tag_L, {4}, {1}, input), LAMBDA h:
  Then(take(h.val.size * h.val.count, h.rest), LAMBDA d:
  Ok(d.rest, Block("DeviceID", d.val))))

parse_stmp(input) ==
  Then(tag_size_count(Tag_J, {8}, {1}, input), LAMBDA h:
  Then(be_u64(h.rest), LAMBDA d:
  Ok(d.rest, Block("StartTimestamp", d.val))))

parse_tsmp(input) ==
  Then(tag_size_count(Tag_L, {4}, {1}, input), LAMBDA h:
  Then(be_u32(h.rest), LAMBDA d:
  Ok(d.rest, Block("TotalSamples", d.val))))

parse_tmpc(input) ==
  Then(tag_size_count(Tag_f, {4}, {1}, input), LAMBDA h:
  Then(be_f32(h.rest), LAMBDA d:
  Ok(d.rest, Block("Temperature", d.val))))

parse_gpsf(input) ==
  Then(tag_size_count(Tag_L, {4}, {1}, input), LAMBDA h:
  Then(be_u32(h.rest), LAMBDA d:
  Ok(d.rest, Block("GPSF", d.val))))

parse_gpsp(input) ==
  Then(tag_size_count(Tag_S, {2}, {1}, input), LAMBDA h:
  Then(be_u16(h.rest), LAMBDA d:
  Then(tag(<<0, 0>>, d.rest), LAMBDA p:
  Ok(p.rest, Block("GPSP", d.val)))))

parse_gpsa(input) ==
  Then(tag_size_count(Tag_F, {4}, {1}, input), LAMBDA h:
  Then(take(4, h.rest), LAMBDA d:
  Ok(d.rest, Block("GPSA", d.val))))

parse_lrvo(input) ==
  Then(tag_size_count(Tag_b, {1}, {1}, input), LAMBDA h:
  Then(be_i8(h.rest), LAMBDA d:
  Then(take(3, d.rest), LAMBDA p:
  Ok(p.rest, Block("LRVO", d.val)))))

parse_lrvs(input) ==
  Then(tag_size_count(Tag_b, {1}, {1}, input), LAMBDA h:
  Then(be_i8(h.rest), LAMBDA d:
  Then(take(3, d.rest), LAMBDA p:
  Ok(p.rest, Block("LRVS", d.val)))))

parse_scal(input) ==
  Then(take(1, input), LAMBDA t:
  IF t.val = Tag_s THEN
    Then(be_u8(t.rest), LAMBDA z:
    IF z.val # 2 THEN Err("PanicAssert") ELSE
    Then(be_u16(z.rest), LAMBDA c:
    IF c.val # 1 THEN Err("PanicAssert") ELSE
    Then(be_i16(c.rest), LAMBDA d:
    Then(take(2, d.rest), LAMBDA p:
    Ok(p.rest, Block("ScalingFactorS", d.val))))))
  ELSE IF t.val = Tag_l THEN
    Then(be_u8(t.rest), LAMBDA z:
    IF z.val # 4 THEN Err("PanicAssert") ELSE
    Then(be_u16(z.rest), LAMBDA c:
    Then(read_loop("i32", c.val, c.rest, <<>>), LAMBDA m:
    Ok(m.rest, Block("ScalingFactorL", m.val)))))
  ELSE Err("PanicScal"))

\* ------------------------------------------------------------------------
\* Text records
\* ------------------------------------------------------------------------
\* the body shared by parse_dvnm, parse_stnm, parse_orin, parse_type and
\* parse_gpsu: take size*count bytes, from_utf8(..).unwrap(), padding
text_block(t, counts, name, input) ==
  Then(tag_size_count(t, AnySize, counts, input), LAMBDA h:
  Then(take(h.val.size * h.val.count, h.rest), LAMBDA d:
  IF ~from_utf8(d.val) THEN Err("PanicUtf8") ELSE
  Then(take_padding(h.val.size * h.val.count, d.rest), LAMBDA p:
  Ok(p.rest, Block(name, d.val)))))

parse_dvnm(input) == text_block(Tag_c, AnyCount, "DeviceName", input)

parse_stnm(input) == text_block(Tag_c, AnyCount, "StreamName", input)

parse_orin(input) == text_block(Tag_c, AnyCount, "InputOrientation", input)

parse_type(input) == text_block(Tag_c, AnyCount, "Type", input)

parse_gpsu(input) == text_block(Tag_U, {1}, "GPSTimestamp", input)

\* replace_b2 on the last byte alone
replace_b2_trailing(si_units) ==
  [i \in 1..Len(si_units) |->
     IF i = Len(si_units) /\ si_units[i] = 178 THEN 50 ELSE si_units[i]]

\* for i in 0..si_units.len() { if si_units[i] == 0xb2 { si_units[i] = b'2' } }
replace_b2(si_units) ==
  [i \in 1..Len(si_units) |-> IF si_units[i] = 178 THEN 50 ELSE si_units[i]]

\* string_length with one byte less per element
string_length_less(size, count) == (size - 1) * count

\* let string_length = (size as usize)*(count as usize)
string_length(size, count) == size * count

parse_siun(input) ==
  Then(tag_size_count(Tag_c, AnySize, AnyCount, input), LAMBDA h:
  Then(take(string_length(h.val.size, h.val.count), h.rest), LAMBDA d:
  Then(Ok(d.rest, replace_b2(d.val)), LAMBDA si_units:
  IF ~from_utf8(si_units.val) THEN Err("PanicUtf8") ELSE
  Then(take_padding(string_length(h.val.size, h.val.count), d.rest), LAMBDA p:
  Ok(p.rest, Block("UnitsSI", si_units.val))))))

\* ------------------------------------------------------------------------
\* Measurement lists: the loop reads `count` elements; the padding that
\* follows is computed from the data_length each function states
\* ------------------------------------------------------------------------
parse_accl(input) ==
  Then(tag_size_count(Tag_s, {6}, AnyCount, input), LAMBDA h:
  Then(read_loop("i16x3", h.val.count, h.rest, <<>>), LAMBDA m:
  Then(take_padding(6 * Len(m.val), m.rest), LAMBDA p:
  Ok(p.rest, Block("Acceleration", m.val)))))

parse_gyro(input) ==
  Then(tag_size_count(Tag_s, {6}, AnyCount, input), LAMBDA h:
  Then(read_loop("i16x3", h.val.count, h.rest, <<>>), LAMBDA m:
  Then(take_padding(6 * Len(m.val), m.rest), LAMBDA p:
  Ok(p.rest, Block("Gyroscope", m.val)))))

parse_shut(input) ==
  Then(tag_size_count(Tag_f, {4}, AnyCount, input), LAMBDA h:
  Then(read_loop("f32", h.val.count, h.rest, <<>>), LAMBDA m:
  Then(take_padding(6 * Len(m.val), m.rest), LAMBDA p:
  Ok(p.rest, Block("ShutterSpeed", m.val)))))

parse_wbal(input) ==
  Then(tag_size_count(Tag_S, {2}, AnyCount, input), LAMBDA h:
  Then(read_loop("u16", h.val.count, h.rest, <<>>), LAMBDA m:
  Then(take_padding(6 * Len(m.val), m.rest), LAMBDA p:
  Ok(p.rest, Block("WhiteBalance", m.val)))))

parse_wrgb(input) ==
  Then(tag_size_count(Tag_f, {12}, AnyCount, input), LAMBDA h:
  Then(read_loop("f32x3", h.val.count, h.rest, <<>>), LAMBDA m:
  Then(take_padding(12 * Len(m.val), m.rest), LAMBDA p:
  Ok(p.rest, Block("WhiteBalanceRGBGains", m.val)))))

parse_isoe(input) ==
  Then(tag_size_count(Tag_S, {2}, AnyCount, input), LAMBDA h:
  Then(read_loop("u16", h.val.count, h.rest, <<>>), LAMBDA m:
  Then(take_padding(6 * Len(m.val), m.rest), LAMBDA p:
  Ok(p.rest, Block("ISO", m.val)))))

parse_unif(input) ==
  Then(tag_size_count(Tag_f, {4}, AnyCount, input), LAMBDA h:
  Then(read_loop("f32", h.val.count, h.rest, <<>>), LAMBDA m:
  Then(take_padding(6 * Len(m.val), m.rest), LAMBDA p:
  Ok(p.rest, Block("ImageUniformity", m.val)))))

parse_cori(input) ==
  Then(tag_size_count(Tag_s, {8}, AnyCount, input), LAMBDA h:
  Then(read_loop("i16x4", h.val.count, h.rest, <<>>), LAMBDA m:
  Ok(m.rest, Block("CameraOrientation", m.val))))

parse_iori(input) ==
  Then(tag_size_count(Tag_s, {8}, AnyCount, input), LAMBDA h:
  Then(read_loop("i16x4", h.val.count, h.rest, <<>>), LAMBDA m:
  Ok(m.rest, Block("ImageOrientation", m.val))))

parse_grav(input) ==
  Then(tag_size_count(Tag_s, {6}, AnyCount, input), LAMBDA h:
  Then(read_loop("i16x3", h.val.count, h.rest, <<>>), LAMBDA m:
  Then(take_padding(6 * Len(m.val), m.rest), LAMBDA p:
  Ok(p.rest, Block("GravityVector", m.val)))))

parse_wndm(input) ==
  Then(tag_size_count(Tag_B, {2}, AnyCount, input), LAMBDA h:
  Then(read_loop("u8x2", h.val.count, h.rest, <<>>), LAMBDA m:
  Then(take_padding(h.val.size * h.val.count, m.rest), LAMBDA p:
  Ok(p.rest, Block("WindProcessing", m.val)))))

parse_mwet(input) ==
  Then(tag_size_count(Tag_B, {3}, AnyCount, input), LAMBDA h:
  Then(read_loop("u8x3", h.val.count, h.rest, <<>>), LAMBDA m:
  Then(take_padding(h.val.size * h.val.count, m.rest), LAMBDA p:
  Ok(p.rest, Block("MicrophoneWet", m.val)))))

parse_aalp(input) ==
  Then(tag_size_count(Tag_b, {2}, AnyCount, input), LAMBDA h:
  Then(read_loop("i8x2", h.val.count, h.rest, <<>>), LAMBDA m:
  Then(take_padding(h.val.size * h.val.count, m.rest), LAMBDA p:
  Ok(p.rest, Block("AGCAudioLevel", m.val)))))

parse_mskp(input) ==
  Then(tag_size_count(Tag_s, {2}, AnyCount, input), LAMBDA h:
  Then(read_loop("i16", h.val.count, h.rest, <<>>), LAMBDA m:
  Then(take_padding(h.val.size * h.val.count, m.rest), LAMBDA p:
  Ok(p.rest, Block("MRVFrameSkip", m.val)))))

parse_lskp(input) ==
  Then(tag_size_count(Tag_s, {2}, AnyCount, input), LAMBDA h:
  Then(read_loop("i16", h.val.count, h.rest, <<>>), LAMBDA m:
  Then(take_padding(h.val.size * h.val.count, m.rest), LAMBDA p:
  Ok(p.rest, Block("LRVFrameSkip", m.val)))))

parse_gps5(input) ==
  Then(tag_size_count(Tag_l, AnySize, AnyCount, input), LAMBDA h:
  Then(take(h.val.size * h.val.count, h.rest), LAMBDA d:
  Ok(d.rest, Block("GPS5", d.val))))

\* ------------------------------------------------------------------------
\* Fallback and dispatch
\* ------------------------------------------------------------------------
parse_custom(type_name, input) ==
  IF ~from_utf8(type_name) THEN Err("PanicUtf8") ELSE
  Then(tag_size_count(TagCustom, AnySize, AnyCount, input), LAMBDA h:
  Then(take(h.val.size * h.val.count, h.rest), LAMBDA d:
  Then(take_padding(h.val.size * h.val.count, d.rest), LAMBDA p:
  Ok(p.rest, Block("Custom", <<type_name, d.val>>)))))

\* the last arm of parse_block's match: any Err of parse_custom becomes
\* Failure(Tag); a panic inside parse_custom is not an Err and unwinds
custom_arm(block_type, input) ==
  CHOOSE y \in { IF r.k \in ErrKinds THEN Err("FailureTag") ELSE r
                   : r \in {parse_custom(block_type, input)} } : TRUE

\* container_open with a padding skip after the nested bytes
container_open_padded(input) ==
  Then(tag_size_count(TagNested, AnySize, AnyCount, input), LAMBDA h:
  Then(take(h.val.size * h.val.count, h.rest), LAMBDA b:
  Then(take_padding(h.val.size * h.val.count, b.rest), LAMBDA p:
  Ok(p.rest, b.val))))

\* the head of parse_devc / parse_strm: tag(&[0x0]), size, count and
\* take(size * count); val is the bounded sub-buffer block_bytes
container_open(input) ==
  Then(tag_size_count(TagNested, AnySize, AnyCount, input), LAMBDA h:
  take(h.val.size * h.val.count, h.rest))

\* the match of parse_block for the keys that hold no nested records
dispatch(block_type, input) ==
  CASE block_type = DVID -> parse_dvid(input)
    [] block_type = DVNM -> parse_dvnm(input)
    [] block_type = STMP -> parse_stmp(input)
    [] block_type = TSMP -> parse_tsmp(input)
    [] block_type = STNM -> parse_stnm(input)
    [] block_type = ORIN -> parse_orin(input)
    [] block_type = SIUN -> parse_siun(input)
    [] block_type = UNIT -> parse_siun(input)
    [] block_type = SCAL -> parse_scal(input)
    [] block_type = TMPC -> parse_tmpc(input)
    [] block_type = ACCL -> parse_accl(input)
    [] block_type = GYRO -> parse_gyro(input)
    [] block_type = SHUT -> parse_shut(input)
    [] block_type = WBAL -> parse_wbal(input)
    [] block_type = WRGB -> parse_wrgb(input)
    [] block_type = ISOE -> parse_isoe(input)
    [] block_type = UNIF -> parse_unif(input)
    [] block_type = TYPE -> parse_type(input)
    [] block_type = GPSF -> parse_gpsf(input)
    [] block_type = GPSU -> parse_gpsu(input)
    [] block_type = GPSP -> parse_gpsp(input)
    [] block_type = GPSA -> parse_gpsa(input)
    [] block_type = GPS5 -> parse_gps5(input)
    [] block_type = CORI -> parse_cori(input)
    [] block_type = IORI -> parse_iori(input)
    [] block_type = GRAV -> parse_grav(input)
    [] block_type = WNDM -> parse_wndm(input)
    [] block_type = MWET -> parse_mwet(input)
    [] block_type = AALP -> parse_aalp(input)
    [] block_type = MSKP -> parse_mskp(input)
    [] block_type = LRVO -> parse_lrvo(input)
    [] block_type = LRVS -> parse_lrvs(input)
    [] block_type = LSKP -> parse_lskp(input)
    [] OTHER -> custom_arm(block_type, input)

\* parse_block on a slice whose key is not DEVC or STRM (those two arms are
\* the actions OpenContainer / CloseContainer below)
parse_block(input) ==
  Then(take(4, input), LAMBDA t: dispatch(t.val, t.rest))

\* ------------------------------------------------------------------------
\* Input buffers: the files read by parse_metadata
\* ------------------------------------------------------------------------
MaxCount == 2

MaxChildren == 2

MaxDepth == 2

U16(n) == <<n \div 256, n % 256>>

Header(key, t, size, count) == key \o t \o <<size>> \o U16(count)

\* the number of padding bytes the format puts after a payload of length L
LawPad(L) == ((L + 3) \div 4) * 4 - L

Fills == {"zero", "asc", "ff", "b2end", "b2mid", "utf8"}

\* n bytes: zeros / the 16-bit values 1, 2, 3, .. / 0xFF / ASCII text with
\* 0xB2 as the byte at position `at` (b2end) or as the first byte (b2mid)
\* / the two-byte UTF-8 form of U+00B2 repeated
Fill(f, n, at) ==
  [i \in 1..n |->
     CASE f = "zero" -> 0
       [] f = "asc" -> IF i % 2 = 1 THEN 0 ELSE i \div 2
       [] f = "ff" -> 255
       [] f = "b2end" -> IF i = at THEN 178 ELSE IF i > at THEN 0 ELSE 109
       [] f = "b2mid" -> IF i = 1 THEN 178 ELSE IF i > at THEN 1 ELSE 109
       [] f = "utf8" -> IF i % 2 = 1 THEN 194 ELSE 178]

UnknownKey == <<65, 66, 67, 68>>

BadKey == <<255, 66, 67, 68>>

GenKeys == KnownKeys \cup {UnknownKey, BadKey}

AllTags ==
  {TagNested, TagCustom, Tag_c, Tag_s, Tag_l, Tag_f, Tag_L, Tag_S, Tag_J,
   Tag_U, Tag_F, Tag_B, Tag_b}

Sizes == {1, 2, 3, 4, 5, 6, 8, 12}

\* what the decoder of `key` does with the bytes that follow the key
after_key(key, input) ==
  IF key \in ContainerKeys THEN container_open(input)
  ELSE dispatch(key, input)

\* the tags and sizes the decoder of `key` reads past
GoodTags(key) ==
  IF key \notin KnownKeys THEN {TagCustom}
  ELSE {t \in AllTags : after_key(key, t).k = "Incomplete"}

GoodSizes(key, t) ==
  IF key \notin KnownKeys THEN Sizes ELSE
  {z \in Sizes : after_key(key, t \o <<z>>).k = "Incomplete"}

WrongTag(key) == IF Tag_c \in GoodTags(key) THEN TagCustom ELSE Tag_c

\* a record alone in the buffer: every accepted tag with every accepted
\* size and one other size, a tag the key does not accept, every count up
\* to MaxCount, a body one byte short of size * count up to three bytes
\* longer, in every fill
Shapes(key) ==
  UNION { { <<t, z>> : z \in GoodSizes(key, t) \cup {5} }
          : t \in GoodTags(key) }
    \cup {<<WrongTag(key), 4>>}

Lengths(L) == {n \in (L - 1)..(L + 3) : n >= 0}

Singles ==
  UNION { UNION { UNION {
    { Header(key, ts[1], ts[2], count) \o Fill(f, n, ts[2] * count)
        : n \in Lengths(ts[2] * count), f \in Fills }
    : count \in 0..MaxCount }
    : ts \in Shapes(key) }
    : key \in GenKeys }

\* a record as the format lays it out: header, payload, LawPad bytes
Rec(key, t, size, count, f) ==
  Header(key, t, size, count)
    \o Fill(f, size * count + LawPad(size * count), size * count)

Good ==
  { Rec(ACCL, Tag_s, 6, 2, "asc"), Rec(DVID, Tag_L, 4, 1, "asc"),
    Rec(UnknownKey, TagCustom, 1, 3, "asc"), Rec(SHUT, Tag_f, 4, 1, "asc") }

RECURSIVE Concats(_, _)
Concats(S, n) ==
  IF n = 0 THEN {<<>>}
  ELSE LET shorter == Concats(S, n - 1) IN
       shorter \cup { a \o b : a \in S, b \in shorter }

Junk == {<<>>, <<0, 0, 0, 0>>, <<65, 66, 67>>}

\* a grouping record around `inner`, declaring N nested bytes
Wrap(key, t, N, inner) == Header(key, t, 1, N) \o inner

Declared(inner) ==
  {n \in {0, Len(inner) - 2, Len(inner), Len(inner) + 4} : n >= 0}

RECURSIVE Nest(_)
Nest(d) ==
  IF d = 0 THEN { a \o j : a \in Concats(Good, MaxChildren), j \in Junk }
  ELSE LET below == Nest(d - 1) IN
       IF d = 1
       THEN UNION { { Wrap(key, TagNested, n, b) : n \in Declared(b) }
                    : key \in ContainerKeys, b \in below }
       ELSE { Wrap(DEVC, TagNested, Len(b) + Len(a), b \o a)
                : b \in below,
                  a \in {<<>>, Rec(DVID, Tag_L, 4, 1, "asc"), <<0, 0, 0, 0>>} }

Nested == UNION { Nest(d) : d \in 0..MaxDepth }

\* a header cut short
Cut == { SubSeq(Header(ACCL, Tag_s, 6, 1), 1, n) : n \in 0..7 }

Buffers == Singles \cup Nested \cup Cut

\* ------------------------------------------------------------------------
\* The decode as a state machine.  Every call of parser is a frame of
\* `stack`: its local `input` and `blocks`, and, while a parse_devc /
\* parse_strm of this frame waits for its nested parser, the slice given
\* to that parse_block (`call`) and the slice after the nested bytes
\* (`after`).
\* ------------------------------------------------------------------------
VARIABLES
  buffer,   \* the bytes read_to_end put in the buffer
  stack,    \* the frames of the parser calls in progress, innermost last
  ret,      \* the IResult a parser call has just returned to its caller
  status,   \* "more" | "done" | "failed" | "panicked"
  result,   \* what parse_metadata returned, or the panic that ended it
  last,     \* the latest parse_block call to return: its input slice, its
            \* result, the depth of its parser call (1 = parse_metadata's)
            \* and its place in that call's sequence of records
  calls     \* the number of parse_block calls made so far

vars == <<buffer, stack, ret, status, result, last, calls>>

NoRet == [k |-> "None", rest |-> <<>>, val |-> <<>>]

NewFrame(input) ==
  [input |-> input, blocks |-> <<>>, call |-> <<>>, after |-> <<>>]

Top == stack[Len(stack)]

Pop == SubSeq(stack, 1, Len(stack) - 1)

HeadKey(input) == IF Len(input) >= 4 THEN SubSeq(input, 1, 4) ELSE <<>>

IsContainer(input) == HeadKey(input) \in ContainerKeys

\* parse_block up to the point where it either has its result or, for a
\* grouping record, has cut out the nested bytes
block_call(input) ==
  IF IsContainer(input) THEN container_open(Drop(input, 4))
  ELSE parse_block(input)

\* parser_iter with the loop left as soon as no whole header remains
parser_iter_short(input, blocks, r) ==
  IF r.k # "Ok" THEN [ret |-> r, input |-> input, blocks |-> blocks]
  ELSE IF Len(r.rest) < 8
       THEN [ret |-> Ok(r.rest, Append(blocks, r.val)),
             input |-> r.rest, blocks |-> Append(blocks, r.val)]
       ELSE [ret |-> [k |-> "None", rest |-> <<>>, val |-> <<>>],
             input |-> r.rest, blocks |-> Append(blocks, r.val)]

\* parser_iter with a failed record ending the loop with the blocks so far
parser_iter_partial(input, blocks, r) ==
  IF r.k # "Ok"
  THEN [ret |-> Ok(input, blocks), input |-> input, blocks |-> blocks]
  ELSE IF r.rest = <<>>
       THEN [ret |-> Ok(r.rest, Append(blocks, r.val)),
             input |-> r.rest, blocks |-> Append(blocks, r.val)]
       ELSE [ret |-> [k |-> "None", rest |-> <<>>, val |-> <<>>],
             input |-> r.rest, blocks |-> Append(blocks, r.val)]

\* parser_iter with the new block put at the front of the list
parser_iter_front(input, blocks, r) ==
  IF r.k # "Ok" THEN [ret |-> r, input |-> input, blocks |-> blocks]
  ELSE IF r.rest = <<>>
       THEN [ret |-> Ok(r.rest, <<r.val>> \o blocks),
             input |-> r.rest, blocks |-> <<r.val>> \o blocks]
       ELSE [ret |-> [k |-> "None", rest |-> <<>>, val |-> <<>>],
             input |-> r.rest, blocks |-> <<r.val>> \o blocks]

\* parser_iter with the loop going round without moving on in the input
parser_iter_stall(input, blocks, r) ==
  IF r.k # "Ok" THEN [ret |-> r, input |-> input, blocks |-> blocks]
  ELSE IF r.rest = <<>>
       THEN [ret |-> Ok(r.rest, Append(blocks, r.val)),
             input |-> r.rest, blocks |-> Append(blocks, r.val)]
       ELSE [ret |-> [k |-> "None", rest |-> <<>>, val |-> <<>>],
             input |-> input, blocks |-> blocks]

\* parser_iter with the test for an empty input made before the record is
\* decoded
parser_iter_while(input, blocks, r) ==
  IF input = <<>>
  THEN [ret |-> Ok(input, blocks), input |-> input, blocks |-> blocks]
  ELSE IF r.k # "Ok" THEN [ret |-> r, input |-> input, blocks |-> blocks]
  ELSE IF r.rest = <<>>
       THEN [ret |-> Ok(r.rest, Append(blocks, r.val)),
             input |-> r.rest, blocks |-> Append(blocks, r.val)]
       ELSE [ret |-> [k |-> "None", rest |-> <<>>, val |-> <<>>],
             input |-> r.rest, blocks |-> Append(blocks, r.val)]

\* parser_iter with the loop left when no whole key remains
parser_iter_key(input, blocks, r) ==
  IF r.k # "Ok" THEN [ret |-> r, input |-> input, blocks |-> blocks]
  ELSE IF Len(r.rest) < 4
       THEN [ret |-> Ok(r.rest, Append(blocks, r.val)),
             input |-> r.rest, blocks |-> Append(blocks, r.val)]
       ELSE [ret |-> [k |-> "None", rest |-> <<>>, val |-> <<>>],
             input |-> r.rest, blocks |-> Append(blocks, r.val)]

\* one turn of parser's loop, given the result r of parse_block(input):
\* `?` returns an Err; otherwise the block is pushed, and the loop breaks
\* and returns Ok((input, blocks)) when the input is empty
parser_iter(input, blocks, r) ==
  IF r.k # "Ok" THEN [ret |-> r, input |-> input, blocks |-> blocks]
  ELSE LET input2 == r.rest
           blocks2 == Append(blocks, r.val)
       IN
       IF input2 = <<>>
       THEN [ret |-> Ok(input2, blocks2), input |-> input2, blocks |-> blocks2]
       ELSE [ret |-> NoRet, input |-> input2, blocks |-> blocks2]

\* the frame after a turn of the loop: updated, or gone with its return value
Turn(it) ==
  IF it.ret.k = "None"
  THEN /\ stack' = [stack EXCEPT ![Len(stack)] =
                      [input |-> it.input, blocks |-> it.blocks,
                       call |-> <<>>, after |-> <<>>]]
       /\ ret' = NoRet
  ELSE /\ stack' = Pop
       /\ ret' = it.ret

\* a panic unwinds every frame and ends the process
Abort(r) ==
  /\ stack' = <<>>
  /\ ret' = NoRet
  /\ status' = "panicked"
  /\ result' = r

\* the record of a parse_block call of the innermost frame
Called(input, r) ==
  [input |-> input, res |-> r, depth |-> Len(stack),
   nth |-> Len(Top.blocks) + 1]

Running == status = "more" /\ ret.k = "None" /\ stack # <<>>

Init ==
  /\ buffer \in Buffers
  /\ stack = <<NewFrame(buffer)>>
  /\ ret = NoRet
  /\ status = "more"
  /\ result = NoRet
  /\ last = [input |-> <<>>, res |-> NoRet, depth |-> 0, nth |-> 0]
  /\ calls = 0

\* parser: parse_block decodes a record that holds no nested records
ParseLeaf ==
  /\ Running
  /\ ~IsContainer(Top.input)
  /\ \E r \in {block_call(Top.input)} :
     /\ r.k = "Ok"
     /\ Turn(parser_iter(Top.input, Top.blocks, r))
     /\ last' = Called(Top.input, r)
  /\ calls' = calls + 1
  /\ UNCHANGED <<buffer, status, result>>

\* parser: parse_block returns an Err, which `?` returns from parser
ParseErr ==
  /\ Running
  /\ \E r \in {block_call(Top.input)} :
     /\ r.k \in ErrKinds
     /\ Turn(parser_iter(Top.input, Top.blocks, r))
     /\ last' = Called(Top.input, r)
  /\ calls' = calls + 1
  /\ UNCHANGED <<buffer, status, result>>

\* parser: an assertion, unwrap or panic! inside parse_block
ParsePanic ==
  /\ Running
  /\ \E r \in {block_call(Top.input)} :
     /\ r.k \in PanicKinds
     /\ Abort(r)
     /\ last' = Called(Top.input, r)
  /\ calls' = calls + 1
  /\ UNCHANGED buffer

\* parse_devc / parse_strm: the nested bytes are cut out and parser is
\* called on them
OpenContainer ==
  /\ Running
  /\ IsContainer(Top.input)
  /\ \E r \in {block_call(Top.input)} :
     /\ r.k = "Ok"
     /\ stack' = Append([stack EXCEPT ![Len(stack)].call = Top.input,
                                      ![Len(stack)].after = r.rest],
                        NewFrame(r.val))
  /\ calls' = calls + 1
  /\ UNCHANGED <<buffer, ret, status, result, last>>

\* parse_devc / parse_strm: the nested parser returned Ok; the assertion on
\* the trailing bytes, then the grouping block goes to the caller's loop
CloseContainer ==
  /\ status = "more"
  /\ ret.k = "Ok"
  /\ stack # <<>>
  /\ IF Len(ret.rest) # 0
     THEN /\ Abort(Err("PanicTrailing"))
          /\ last' = Called(Top.call, Err("PanicTrailing"))
     ELSE LET name == IF HeadKey(Top.call) = DEVC THEN "DeviceSource"
                      ELSE "Stream"
              r == Ok(Top.after, Block(name, ret.val))
          IN
          /\ Turn(parser_iter(Top.input, Top.blocks, r))
          /\ last' = Called(Top.call, r)
          /\ UNCHANGED <<status, result>>
  /\ UNCHANGED <<buffer, calls>>

\* parse_devc / parse_strm: the nested parser returned an Err; `?` hands it
\* on through parse_block to the caller's loop
PropagateErr ==
  /\ status = "more"
  /\ ret.k \in ErrKinds
  /\ stack # <<>>
  /\ Turn(parser_iter(Top.input, Top.blocks, ret))
  /\ last' = Called(Top.call, ret)
  /\ UNCHANGED <<buffer, status, result, calls>>

\* parse_metadata: let (_, result) = parser(input)?; Ok(result)
ReturnOk ==
  /\ status = "more"
  /\ stack = <<>>
  /\ ret.k = "Ok"
  /\ status' = "done"
  /\ result' = Ok(<<>>, ret.val)
  /\ UNCHANGED <<buffer, stack, ret, last, calls>>

\* parse_metadata: `?` turns the nom error into ParseError::Generic
ReturnErr ==
  /\ status = "more"
  /\ stack = <<>>
  /\ ret.k \in ErrKinds
  /\ status' = "failed"
  /\ result' = Err("Generic")
  /\ UNCHANGED <<buffer, stack, ret, last, calls>>

Next ==
  \/ ParseLeaf
  \/ ParseErr
  \/ ParsePanic
  \/ OpenContainer
  \/ CloseContainer
  \/ PropagateErr
  \/ ReturnOk
  \/ ReturnErr

Spec == Init /\ [][Next]_vars

\* the decode is one sequential computation: a step that can be taken is
\* taken
FairSpec == Spec /\ WF_vars(Next)

\* ------------------------------------------------------------------------
\* Properties.  They read the latest parse_block call from `last`: its
\* header fields, its payload and what it consumed.
\* ------------------------------------------------------------------------
LKey == HeadKey(last.input)

LTag == <<last.input[5]>>

LSize == last.input[6]

LCount == last.input[7] * 256 + last.input[8]

\* the payload length the header declares
LDeclared == LSize * LCount

\* a call on a record that holds no nested records, its header complete
LeafCall == Len(last.input) >= 8 /\ LKey \notin ContainerKeys

LeafOk == LeafCall /\ last.res.k = "Ok"

Consumed == Len(last.input) - Len(last.res.rest)

\* C1: a successful decode of a record with payload length
\* L = size x count consumes the 8 header bytes, the L payload bytes and
\* exactly ((L + 3) / 4) * 4 - L bytes more.
C1_PaddingLaw ==
  LeafOk => Consumed = 8 + LDeclared + LawPad(LDeclared)

\* the positions of the input that hold the padding of its first record
PaddingAt(input) ==
  LET L == input[6] * (input[7] * 256 + input[8]) IN
  {i \in (8 + L + 1)..(8 + L + LawPad(L)) : i <= Len(input)}

PadBytes == {0, 255}

\* the inputs that differ from `input` in the padding bytes alone
PaddingVariants(input) ==
  { [i \in 1..Len(input) |-> IF i \in PaddingAt(input) THEN f[i] ELSE input[i]]
      : f \in [PaddingAt(input) -> PadBytes] }

SameOutcome(a, b) ==
  /\ a.k = b.k
  /\ Len(a.rest) = Len(b.rest)
  /\ a.val = b.val

\* C2: two inputs that differ only in the padding bytes of a record decode
\* to the same outcome: the same success or failure, the same Record and
\* the same remaining position.
C2_PaddingNeverValidated ==
  (LeafCall /\ Len(last.input) >= 8 + LDeclared + LawPad(LDeclared)) =>
    \A v \in PaddingVariants(last.input) : SameOutcome(parse_block(v), last.res)

\* a call made inside a grouping record, after at least one child of that
\* record was decoded, on bytes too few to be a record
LeftoverCall ==
  /\ last.depth >= 2
  /\ last.nth >= 2
  /\ Len(last.input) \in 1..7
  /\ LKey \notin ContainerKeys

\* C3 as stated: when the children of a grouping record leave unconsumed
\* bytes in the sub-buffer, the decode fails with TrailingData (the
\* assertion on trailing_bytes) and with no other failure.
C3_LeftoverIsTrailingData ==
  LeftoverCall => last.res.k = "PanicTrailing"

\* C3 as amended: a nested parser call that returns Ok has consumed its
\* sub-buffer exactly, so the assertion on the trailing bytes never fails;
\* bytes left after a child are decoded as one more record, and when they
\* are too few to be a record the decode fails with that record's failure,
\* which is Incomplete when fewer than 4 bytes are left.
C3_ContainerExact ==
  /\ ret.k = "Ok" => ret.rest = <<>>
  /\ result.k # "PanicTrailing"
  /\ last.res.k # "PanicTrailing"
  /\ LeftoverCall =>
       /\ last.res.k \in (ErrKinds \cup PanicKinds) \ {"PanicTrailing"}
       /\ Len(last.input) < 4 => last.res.k = "Incomplete"

\* a child decoded, three bytes left in the sub-buffer, and the decode of
\* the grouping record fails
C3_Witness ==
  /\ LeftoverCall
  /\ Len(last.input) = 3
  /\ ret.k = "Incomplete"
  /\ Len(stack) >= 1

\* C4: once a parse_block call has failed, at any depth, no further record
\* is decoded and no Record list is returned: the failure travels to
\* parse_metadata, which returns one error (or the process ends in the
\* panic), whatever was decoded before.
C4_FailureAborts ==
  /\ last.res.k \in (ErrKinds \cup PanicKinds) =>
       /\ ~Running
       /\ status # "done"
       /\ result.k # "Ok"
       /\ \/ ret.k \in ErrKinds /\ ret.val = <<>> /\ status = "more"
          \/ status = "failed" /\ result = Err("Generic")
          \/ status = "panicked" /\ result.k \in PanicKinds /\ stack = <<>>
  /\ status = "done" => last.res.k = "Ok" /\ result.k = "Ok"
  /\ status = "failed" => last.res.k \in ErrKinds

\* a failure inside a grouping record, after other records were decoded,
\* has reached parse_metadata
C4_Witness ==
  /\ status = "failed"
  /\ LKey \in ContainerKeys
  /\ calls >= 3
  /\ result = Err("Generic")

\* C5 as stated: for a key with no decoder (a key that is text), the decode
\* fails with Failure(Tag), the unknown-block-type failure, exactly when the
\* tag is not '?'; with the tag '?' a failure is Incomplete.
C5_UnknownBlockType ==
  (Len(last.input) >= 5 /\ LKey \notin KnownKeys /\ from_utf8(LKey)) =>
    /\ last.res.k = "FailureTag" <=> LTag # TagCustom
    /\ (LTag = TagCustom /\ last.res.k # "Ok") => last.res.k = "Incomplete"

WithTag(input, t) == [input EXCEPT ![5] = t[1]]

WithSize(input, z) == [input EXCEPT ![6] = z]

\* the ways a decoder rejects a tag or a size
FormatFailure == {"ErrorTag", "PanicAssert", "PanicScal"}

KnownOk == Len(last.input) >= 8 /\ LKey \in KnownKeys /\ last.res.k = "Ok"

\* C6 as stated: the tag and the size of a record decoded under a known key
\* are the only ones its decoder accepts: with any other tag, and with any
\* other size, the decode is rejected.
C6_TagAndSizeValidated ==
  KnownOk =>
    /\ \A t \in AllTags \ {LTag} :
         block_call(WithTag(last.input, t)).k \in FormatFailure
    /\ \A z \in Sizes \ {LSize} :
         block_call(WithSize(last.input, z)).k \in FormatFailure

UnitOk == LeafOk /\ LKey \in {SIUN, UNIT}

\* the text a unit-string record decoded to, and the payload bytes
LText == last.res.val.v

LByte(i) == last.input[8 + i]

\* C7 as stated: in a unit string only a trailing 0xB2 becomes '2'; a byte
\* at a position that is not the last is left as it is.
C7_OnlyTrailingB2 ==
  UnitOk =>
    \A i \in 1..Len(LText) :
      LText[i] = IF i = Len(LText) /\ LByte(i) = 178 THEN 50 ELSE LByte(i)

\* a call on a unit-string record that is all there: tag, payload, padding
UnitCall ==
  /\ LeafCall
  /\ LKey \in {SIUN, UNIT}
  /\ LTag = Tag_c
  /\ Len(last.input) >= 8 + LDeclared + LawPad(LDeclared)

\* the payload with every byte 0xB2 turned into '2'
Corrected == [i \in 1..LDeclared |-> IF LByte(i) = 178 THEN 50 ELSE LByte(i)]

\* C7 as amended: every byte 0xB2 of the payload, at any position, becomes
\* '2', and no other byte is changed; the text is decoded from the bytes so
\* corrected, and the record is decoded exactly when they are valid UTF-8.
C7_EveryB2 ==
  UnitCall =>
    IF from_utf8(Corrected)
    THEN last.res.k = "Ok" /\ LText = Corrected
    ELSE last.res.k = "PanicUtf8"

\* a unit string decoded whose first byte, not its last, was 0xB2
C7_Witness ==
  UnitOk /\ Len(LText) >= 2 /\ LByte(1) = 178 /\ LText[1] = 50

\* C8 as stated: a unit-string record with size S and count C holds
\* (S - 1) x C text bytes, and the padding follows from that length.
C8_SizeMinusOne ==
  UnitOk =>
    /\ Len(LText) = (LSize - 1) * LCount
    /\ Consumed = 8 + (LSize - 1) * LCount + LawPad((LSize - 1) * LCount)

\* C8 as amended: it holds S x C text bytes, and the padding follows from
\* that length.
C8_SizeTimesCount ==
  UnitOk =>
    /\ Len(LText) = LSize * LCount
    /\ Consumed = 8 + LSize * LCount + LawPad(LSize * LCount)

\* a unit record of two 3-byte elements decoded: 6 text bytes, 2 of padding
C8_Witness ==
  UnitOk /\ LKey = UNIT /\ LSize = 3 /\ LCount = 2 /\ Consumed = 16

\* big-endian values of the payload, by position
U16At(i) == LByte(i) * 256 + LByte(i + 1)

S16At(i) == IF U16At(i) >= 32768 THEN U16At(i) - 65536 ELSE U16At(i)

S32At(i) ==
  (IF LByte(i) >= 128 THEN LByte(i) - 256 ELSE LByte(i)) * 16777216
    + LByte(i + 1) * 65536 + LByte(i + 2) * 256 + LByte(i + 3)

S8At(i) == IF LByte(i) >= 128 THEN LByte(i) - 256 ELSE LByte(i)

F32At(i) == [f32bits |-> <<U16At(i), U16At(i + 2)>>]

\* C9: a SCAL record with tag 's', size 2, count 1 is one signed 16-bit
\* value followed by 2 padding bytes; with tag 'l', size 4 it is `count`
\* signed 32-bit values in payload order; any other tag is an Error result.
C9_ScalByTag ==
  (Len(last.input) >= 5 /\ LKey = SCAL) =>
    /\ (LTag = Tag_s /\ last.res.k = "Ok") =>
         /\ LSize = 2 /\ LCount = 1
         /\ last.res.val = Block("ScalingFactorS", S16At(1))
         /\ Consumed = 12
    /\ (LTag = Tag_l /\ last.res.k = "Ok") =>
         /\ LSize = 4
         /\ last.res.val.t = "ScalingFactorL"
         /\ Len(last.res.val.v) = LCount
         /\ \A e \in 1..LCount : last.res.val.v[e] = S32At(4 * (e - 1) + 1)
    /\ LTag \notin {Tag_s, Tag_l} => last.res.k = "ErrorTag"

\* the keys decoded to a list of tuples: the components of a tuple, the
\* bytes of a component and how a component is read
TupleKeys ==
  {ACCL, GYRO, GRAV, CORI, IORI, SHUT, UNIF, WRGB, WBAL, ISOE, WNDM, MWET,
   AALP, MSKP, LSKP}

Comps(key) ==
  CASE key \in {ACCL, GYRO, GRAV, WRGB, MWET} -> 3
    [] key \in {CORI, IORI} -> 4
    [] key \in {WNDM, AALP} -> 2
    [] OTHER -> 1

Width(key) ==
  CASE key \in {SHUT, UNIF, WRGB} -> 4
    [] key \in {WNDM, MWET, AALP} -> 1
    [] OTHER -> 2

CompAt(key, i) ==
  CASE key \in {SHUT, UNIF, WRGB} -> F32At(i)
    [] key \in {WBAL, ISOE} -> U16At(i)
    [] key \in {WNDM, MWET} -> LByte(i)
    [] key = AALP -> S8At(i)
    [] OTHER -> S16At(i)

\* element e of the list, read from its place in the payload
TupleAt(key, e) ==
  LET at == (e - 1) * Comps(key) * Width(key) + 1 IN
  IF Comps(key) = 1 /\ key \notin {SHUT, UNIF, WBAL, ISOE, MSKP, LSKP}
  THEN <<CompAt(key, at)>>
  ELSE IF Comps(key) = 1 THEN CompAt(key, at)
  ELSE [j \in 1..Comps(key) |-> CompAt(key, at + (j - 1) * Width(key))]

AcclExample == Rec(ACCL, Tag_s, 6, 2, "asc")

\* C10: a tuple-list record with count n decodes to exactly n tuples in
\* payload order, every component the big-endian value at its place; the
\* ACCL record of (1,2,3),(4,5,6) decodes to [[1,2,3],[4,5,6]] and
\* consumes 8 + 12 bytes.
C10_TupleList ==
  /\ (LeafOk /\ LKey \in TupleKeys) =>
       /\ Len(last.res.val.v) = LCount
       /\ \A e \in 1..LCount : last.res.val.v[e] = TupleAt(LKey, e)
  /\ (last.depth >= 1 /\ Len(last.input) >= 20
        /\ SubSeq(last.input, 1, 20) = AcclExample) =>
       /\ last.res = Ok(Drop(last.input, 20),
                        Block("Acceleration", <<<<1, 2, 3>>, <<4, 5, 6>>>>))

\* the ACCL record of the example has been decoded
C10_Witness ==
  /\ last.depth >= 1
  /\ last.input = AcclExample
  /\ last.res.k = "Ok"
  /\ Consumed = 20

IsSuffix(a, b) ==
  Len(a) <= Len(b) /\ a = SubSeq(b, Len(b) - Len(a) + 1, Len(b))

\* the nested length the header of a grouping record declares
NestedLength(call) == call[6] * (call[7] * 256 + call[8])

ContainerOk ==
  Len(last.input) >= 8 /\ LKey \in ContainerKeys /\ last.res.k = "Ok"

\* C11: a grouping record decoded with success leaves its caller at exactly
\* 8 + size x count bytes after its start, with no padding skipped, whatever
\* its children hold; and while its children are decoded, the slice they
\* read is within the size x count nested bytes, the bytes after them kept
\* aside for the caller.
C11_ContainerBounded ==
  /\ ContainerOk =>
       /\ Consumed = 8 + LDeclared
       /\ last.res.rest = Drop(last.input, 8 + LDeclared)
  /\ \A i \in 2..Len(stack) :
       LET call == stack[i - 1].call IN
       /\ Len(call) >= 8 + NestedLength(call)
       /\ IsSuffix(stack[i].input, SubSeq(call, 9, 8 + NestedLength(call)))
       /\ stack[i - 1].after = Drop(call, 8 + NestedLength(call))

\* a grouping record of 14 nested bytes decoded, 2 bytes of the caller's
\* slice left after it
C11_Witness ==
  ContainerOk /\ LDeclared = 14 /\ Len(last.res.rest) = 2 /\ Consumed = 22

\* the kinds of the blocks of a list, in order
Kinds(blocks) == [i \in 1..Len(blocks) |-> blocks[i].t]

TwoRecords == Rec(ACCL, Tag_s, 6, 2, "asc") \o Rec(DVID, Tag_L, 4, 1, "asc")

\* one step of a sequence decode in which a record has been decoded: the
\* record is appended to the list of its sequence; the sequence returns the
\* list when nothing is left after the record, and goes on from the byte
\* after the record otherwise
RecordStep ==
  (last' # last /\ last'.res.k = "Ok") =>
    IF last'.res.rest = <<>>
    THEN /\ stack' = Pop
         /\ ret' = Ok(<<>>, Append(Top.blocks, last'.res.val))
    ELSE /\ Len(stack') = Len(stack)
         /\ stack'[Len(stack)].blocks = Append(Top.blocks, last'.res.val)
         /\ stack'[Len(stack)].input = last'.res.rest
         /\ ret'.k = "None"

\* the list a finished decode returns: its last block is the last record
\* decoded at the top level, its length that record's place
ReturnedList ==
  /\ status = "done" =>
       /\ last.depth = 1
       /\ Len(result.val) = last.nth
       /\ result.val[last.nth] = last.res.val
  /\ (status = "done" /\ buffer = TwoRecords) =>
       Kinds(result.val) = <<"Acceleration", "DeviceID">>
  /\ (status = "done"
        /\ buffer = Wrap(STRM, TagNested, Len(TwoRecords), TwoRecords)) =>
       /\ Kinds(result.val) = <<"Stream">>
       /\ Kinds(result.val[1].v) = <<"Acceleration", "DeviceID">>

\* C12: a sequence decode takes one record at a time from the current
\* position and appends it to its list; it is done exactly when nothing is
\* left after a record; the list returned holds one block per record
\* decoded, in input order, at the top level and inside a grouping record.
C12_SequenceMachine ==
  /\ []ReturnedList
  /\ [][RecordStep /\ calls' \in {calls, calls + 1}]_vars

\* the decode of a grouping record holding two records is done
C12_Witness ==
  /\ status = "done"
  /\ buffer = Wrap(STRM, TagNested, Len(TwoRecords), TwoRecords)
  /\ Len(result.val[1].v) = 2

Ended == status \in {"done", "failed", "panicked"}

\* the measures of the decode: a record decoded takes at least its 8
\* header bytes; the slice of a nested sequence is at least 8 bytes shorter
\* than the slice holding its grouping record; so the calls made and the
\* depth of nesting are bounded by the length of the buffer
Progress ==
  /\ last.res.k = "Ok" => Consumed >= 8
  /\ \A i \in 2..Len(stack) :
       Len(stack[i].input) + 8 <= Len(stack[i - 1].input)
  /\ 8 * (Len(stack) - 1) <= Len(buffer)
  /\ 8 * calls <= Len(buffer) + 8

\* C13: the decode of every buffer ends, in "done" or in the first failure:
\* every record decoded moves the position on by at least 8 bytes and every
\* grouping record hands a strictly shorter slice to its nested decode.
C13_Terminates == []Progress /\ <>Ended

\* a decode through two levels of grouping records has ended in "done"
C13_Witness ==
  status = "done" /\ HeadKey(buffer) = DEVC /\ calls >= 4 /\ last.depth = 1

\* a call on a grouping record whose header declares no nested bytes
EmptyContainerCall ==
  /\ Len(last.input) >= 8
  /\ LKey \in ContainerKeys
  /\ LTag = TagNested
  /\ LDeclared = 0

\* C14: no sequence decode returns an empty list, at the top level or for
\* a grouping record: a decode of an empty slice fails with Incomplete, so
\* an empty buffer and a grouping record of nested length 0 fail with it.
C14_NeverEmptyList ==
  /\ ret.k = "Ok" => Len(ret.val) >= 1
  /\ status = "done" => Len(result.val) >= 1
  /\ ContainerOk => Len(last.res.val.v) >= 1
  /\ (last.depth >= 1 /\ last.input = <<>>) => last.res.k = "Incomplete"
  /\ (buffer = <<>> /\ calls >= 1) =>
       last.res.k = "Incomplete" /\ status \in {"more", "failed"}
  /\ EmptyContainerCall => last.res.k = "Incomplete"

\* a grouping record of nested length 0 has made the whole decode fail
C14_Witness ==
  EmptyContainerCall /\ last.res.k = "Incomplete" /\ status = "failed"

\* a call at the top level on what is left after a record, shorter than a
\* header
ShortRemainder ==
  last.depth = 1 /\ last.nth >= 2 /\ Len(last.input) \in 1..7

\* C15: a sequence decode that returns Ok returns an empty remaining
\* slice.  So a decode that is done has read the buffer to its end; bytes
\* left after a record and shorter than a record make the next record's
\* decode, and with it the whole decode, fail; and the assertion on the
\* trailing bytes of a nested decode never fails.
C15_ParserExhausts ==
  /\ ret.k = "Ok" => Len(ret.rest) = 0
  /\ Len(stack) >= 1 => IsSuffix(stack[1].input, buffer)
  /\ last.res.k = "Ok" => IsSuffix(last.res.rest, last.input)
  /\ status = "done" =>
       /\ last.depth = 1
       /\ IsSuffix(last.input, buffer)
       /\ last.res.k = "Ok"
       /\ last.res.rest = <<>>
  /\ ShortRemainder =>
       /\ last.res.k \in ErrKinds \cup PanicKinds
       /\ status \in {"more", "failed", "panicked"}
       /\ status = "more" => ret.k \in ErrKinds
  /\ "PanicTrailing" \notin {ret.k, result.k, last.res.k}

\* three bytes left after the first record of the buffer have made the
\* decode fail
C15_Witness ==
  ShortRemainder /\ Len(last.input) = 3 /\ status = "failed"

====
